---- MODULE Spec2Model ----
(***************************************************************************)
(* Model of src/src/duration.rs: the duration parser (leading_int,         *)
(* leading_fraction, parse, parse_duration) and the formatter (to_string,  *)
(* fmt_frac, fmt_int).                                                     *)
(*                                                                         *)
(* TLC's integers are 32 bits wide, the program's are 64 bits wide, so a   *)
(* u64 / i64 / f64-mantissa value is held here as a natural number written *)
(* in base 10^4: a sequence of limbs 0..9999, least significant limb       *)
(* first, with no most significant zero limb (zero is the empty sequence). *)
(* An i64 is held as its two's complement bit pattern, a number in         *)
(* 0 .. 2^64-1, which is what `as u64` / `as i64` reinterpret.             *)
(***************************************************************************)
EXTENDS Integers, Sequences, FiniteSets, TLC

---------------------------------------------------------------------------
(* Unbounded natural-number arithmetic on sequences of base-10^4 limbs.    *)
(* Intermediate results are handed on as operator arguments, which TLC     *)
(* evaluates once.                                                         *)

Base == 10 ^ 4

Max(a, b) == IF a >= b THEN a ELSE b
Min(a, b) == IF a <= b THEN a ELSE b

\* the index of the most significant non-zero limb of a, 0 when there is none
Top(a) ==
    IF \A i \in 1..Len(a) : a[i] = 0 THEN 0
    ELSE CHOOSE i \in 1..Len(a) : a[i] # 0 /\ \A j \in (i + 1)..Len(a) : a[j] = 0

\* a without its most significant zero limbs
Norm(a) == SubSeq(a, 1, Top(a))

Limb(a, i) == IF i >= 1 /\ i <= Len(a) THEN a[i] ELSE 0

\* a TLC integer 0 <= n < 2^31 as a number
NatToBig(n) ==
    Norm(<<n % Base, (n \div Base) % Base, n \div (Base * Base)>>)

\* the limbs of p (each below 2^31 - Base^2) from limb i on, with the
\* carry c into limb i propagated
RECURSIVE CarryFrom(_, _, _)
CarryFrom(p, i, c) ==
    IF i > Len(p) THEN <<c % Base, c \div Base>>
    ELSE <<(p[i] + c) % Base>> \o CarryFrom(p, i + 1, (p[i] + c) \div Base)

BAdd(a, b) ==
    Norm(CarryFrom([i \in 1..Max(Len(a), Len(b)) |-> Limb(a, i) + Limb(b, i)], 1, 0))

\* -1, 0, 1 as a < b, a = b, a > b: m is the most significant limb in
\* which two numbers of the same length differ
CmpAt(a, b, m) == IF m = 0 THEN 0 ELSE IF a[m] < b[m] THEN -1 ELSE 1
BCmp(a, b) ==
    IF Len(a) < Len(b) THEN -1
    ELSE IF Len(a) > Len(b) THEN 1
    ELSE CmpAt(a, b, Top([i \in 1..Len(a) |-> IF a[i] = b[i] THEN 0 ELSE 1]))

BLt(a, b) == BCmp(a, b) < 0
BLe(a, b) == BCmp(a, b) <= 0
BGt(a, b) == BCmp(a, b) > 0
BGe(a, b) == BCmp(a, b) >= 0

\* a - b: limb i onwards, c the borrow out of limb i - 1
RECURSIVE SubFrom(_, _, _, _)
SubFrom(a, b, i, c) ==
    IF i > Len(a) THEN <<>>
    ELSE IF a[i] - Limb(b, i) - c < 0
    THEN <<a[i] - Limb(b, i) - c + Base>> \o SubFrom(a, b, i + 1, 1)
    ELSE <<a[i] - Limb(b, i) - c>> \o SubFrom(a, b, i + 1, 0)

\* a - b, for a >= b
BSub(a, b) == Norm(SubFrom(a, b, 1, 0))

\* a * k, for a TLC integer 0 <= k <= 200000
BMulSmall(a, k) == Norm(CarryFrom([i \in 1..Len(a) |-> a[i] * k], 1, 0))

\* sum of a[i] * b[k + 1 - i] over i = lo .. hi
RECURSIVE ConvSum(_, _, _, _, _)
ConvSum(a, b, k, lo, hi) ==
    IF lo > hi THEN 0
    ELSE a[lo] * b[k + 1 - lo] + ConvSum(a, b, k, lo + 1, hi)

\* a * b, for numbers of at most 20 limbs
BMul(a, b) ==
    Norm(CarryFrom([k \in 1..(Len(a) + Len(b)) |->
            ConvSum(a, b, k, Max(1, k + 1 - Len(b)), Min(k, Len(a)))], 1, 0))

\* remainder of the number made of the limbs i..Len(a) of a, divided by k
RECURSIVE RemSmallFrom(_, _, _)
RemSmallFrom(a, k, i) ==
    IF i > Len(a) THEN 0
    ELSE (RemSmallFrom(a, k, i + 1) * Base + a[i]) % k

\* a mod k and a div k, for a TLC integer 1 <= k <= 200000
BModSmall(a, k) == RemSmallFrom(a, k, 1)
BDivSmall(a, k) ==
    Norm([i \in 1..Len(a) |-> (RemSmallFrom(a, k, i + 1) * Base + a[i]) \div k])

\* the limb q with q * b <= r < (q + 1) * b, for r < b * Base and a
\* divisor b whose most significant limb is at least Base / 2 (Knuth's
\* Algorithm D: the estimate qh from the leading limbs is at most 2 too large)
QuotFix(r, b, qh) ==
    IF BLe(BMulSmall(b, qh), r) THEN qh
    ELSE IF BLe(BMulSmall(b, qh - 1), r) THEN qh - 1
    ELSE qh - 2
QuotLimb(r, b) ==
    QuotFix(r, b, Min(Base - 1,
        (Limb(r, Len(b) + 1) * Base + Limb(r, Len(b))) \div b[Len(b)]))

\* long division by b of the limbs i, i - 1, .., 1 of a, given the quotient
\* q and the remainder r < b of the limbs above them
RECURSIVE DivLoop(_, _, _, _, _)
DivStep(a, b, i, q, r1, qd) ==
    IF qd >= 0 THEN DivLoop(a, b, i - 1, <<qd>> \o q, BSub(r1, BMulSmall(b, qd)))
    ELSE [q |-> <<>>, r |-> <<>>]
DivShift(a, b, i, q, r1) == DivStep(a, b, i, q, r1, QuotLimb(r1, b))
DivLoop(a, b, i, q, r) ==
    IF i = 0 THEN [q |-> Norm(q), r |-> r]
    ELSE DivShift(a, b, i, q, Norm(<<a[i]>> \o r))

\* a div b and a mod b, for b # 0: both are scaled by d so that the
\* divisor's leading limb is at least Base / 2
DivFrom(a, b) == DivLoop(a, b, Len(a), <<>>, <<>>)
Unscale(qr, d) == [q |-> qr.q, r |-> BDivSmall(qr.r, d)]
DivScaled(a, b, d) == Unscale(DivFrom(BMulSmall(a, d), BMulSmall(b, d)), d)
BDivMod(a, b) == DivScaled(a, b, Base \div (b[Len(b)] + 1))
BDiv(a, b) == BDivMod(a, b).q
BMod(a, b) == BDivMod(a, b).r

---------------------------------------------------------------------------
(* The fixed-width types: u64 and i64 in two's complement, f64 in IEEE 754  *)
(* binary64 with round-to-nearest-even.                                    *)

One == <<1>>
IsOdd(a) == Limb(a, 1) % 2 = 1

\* 2^k for k in 0 .. MaxPow2, from a table computed once
MaxPow2 == 2 ^ 8
RECURSIVE Pow2Rec(_)
Pow2Rec(k) == IF k < 16 THEN NatToBig(2 ^ k) ELSE BMulSmall(Pow2Rec(k - 16), 2 ^ 16)
Pow2Table == [k \in 0..MaxPow2 |-> Pow2Rec(k)]
Pow2(k) == Pow2Table[k]

TwoPow52 == Pow2(52)
TwoPow53 == Pow2(53)
TwoPow63 == Pow2(63)
TwoPow64 == Pow2(64)
U64Max == BSub(TwoPow64, One)
I64Max == BSub(TwoPow63, One)

\* a u64 result reduced modulo 2^64, as the wrapping operations do
WrapU64(a) == BMod(a, TwoPow64)

\* the number of bits of a > 0: 2^(k-1) <= a < 2^k
BitLen(a) ==
    CHOOSE k \in (13 * (Len(a) - 1) + 1)..(14 * Len(a)) :
        BLe(Pow2(k - 1), a) /\ BLt(a, Pow2(k))

\* An f64 is [m, e], the value m * 2^e with 2^52 <= m < 2^53, or zero.
\* (Every f64 the program computes is finite, positive or zero, and normal.)
F64Zero == [m |-> <<>>, e |-> 0]

\* x * 2^k for k > 0, x for k <= 0
ScaleUp(x, k) == IF k > 0 THEN BMul(x, Pow2(k)) ELSE x

\* the f64 of mantissa m and exponent e, renormalised when rounding up
\* carried m to 2^53
Mantissa(m, e) ==
    IF m = TwoPow53 THEN [m |-> TwoPow52, e |-> e + 1] ELSE [m |-> m, e |-> e]

\* round-to-nearest-even of the quotient qr.q with remainder qr.r of a
\* division by den
RoundTies(qr, den, e) ==
    IF BGt(BAdd(qr.r, qr.r), den) \/ (BAdd(qr.r, qr.r) = den /\ IsOdd(qr.q))
    THEN Mantissa(BAdd(qr.q, One), e)
    ELSE Mantissa(qr.q, e)

\* n / d = q * 2^e + remainder, with q of 53 bits
QuotAt(n, d, e) == BDivMod(ScaleUp(n, -e), ScaleUp(d, e))
RoundAt(n, d, e, off) == RoundTies(QuotAt(n, d, e), ScaleUp(d, e), e + off)

\* the exponent e0 gives a quotient of 53 or 54 bits; 54 bits take e0 + 1
RoundFrom(n, d, e0, off) ==
    IF BGe(QuotAt(n, d, e0).q, TwoPow53) THEN RoundAt(n, d, e0 + 1, off)
    ELSE RoundAt(n, d, e0, off)

\* the f64 nearest to (n / d) * 2^off, ties to the even mantissa
RoundF64(n, d, off) ==
    IF n = <<>> THEN F64Zero
    ELSE RoundFrom(n, d, BitLen(n) - BitLen(d) - 53, off)

\* `x as f64` for an integer x >= 0
F64FromInt(x) == RoundF64(x, One, 0)

\* x * y and x / y in f64, for y # 0
F64Mul(x, y) == RoundF64(BMul(x.m, y.m), One, x.e + y.e)
F64Div(x, y) == RoundF64(x.m, y.m, x.e - y.e)

\* `x as u64` for an f64 x >= 0: rounds toward zero and saturates
F64ToU64(x) ==
    IF x.m = <<>> \/ x.e < -53 THEN <<>>
    ELSE IF x.e > 11 THEN U64Max
    ELSE IF x.e >= 0 THEN BMul(x.m, Pow2(x.e))
    ELSE BDiv(x.m, Pow2(-(x.e)))

---------------------------------------------------------------------------
(* Program constants (duration.rs lines 6 - 13) and the bytes it tests.     *)

NANOSECOND  == One
MICROSECOND == BMulSmall(NANOSECOND, 1000)
MILLISECOND == BMulSmall(MICROSECOND, 1000)
SECOND      == BMulSmall(MILLISECOND, 1000)
MINUTE      == BMulSmall(SECOND, 60)
HOUR        == BMulSmall(MINUTE, 60)
DAY         == BMulSmall(HOUR, 24)
WEEK        == BMulSmall(DAY, 7)

Byte0     == 48      \* b'0'
Byte9     == 57      \* b'9'
ByteDot   == 46      \* b'.'
ByteMinus == 45      \* b'-'
BytePlus  == 43      \* b'+'

IsDigit(c) == c >= Byte0 /\ c <= Byte9

\* &s[n..]
SliceFrom(s, n) == SubSeq(s, n + 1, Len(s))

\* The arithmetic of one build.  With overflow checks (the dev and test
\* profiles) an operation whose exact result does not fit its type panics;
\* without them (the release profile) it wraps.  ovf tells which happened.
U64Of(t) ==
    IF BGt(t, U64Max) THEN [v |-> WrapU64(t), ovf |-> TRUE]
    ELSE [v |-> t, ovf |-> FALSE]

U64Add(a, b) == U64Of(BAdd(a, b))
U64Mul(a, b) == U64Of(BMul(a, b))
U64Sub(a, b) ==
    IF BLt(a, b) THEN [v |-> BSub(BAdd(a, TwoPow64), b), ovf |-> TRUE]
    ELSE [v |-> BSub(a, b), ovf |-> FALSE]

\* an operation's result t after the result r of the operation before it:
\* the value is t's, and an overflow in either is an overflow
After(r, t) == [v |-> t.v, ovf |-> r.ovf \/ t.ovf]

---------------------------------------------------------------------------
(* leading_int (lines 39 - 58)                                             *)

U64MaxDiv10 == BDivSmall(U64Max, 10)

\* 10 * x + c - b'0' in u64 (line 50), operation by operation
TimesTen(x) == U64Mul(NatToBig(10), x)
PlusByte(r, c) == After(r, U64Add(r.v, NatToBig(c)))
MinusByte0(r) == After(r, U64Sub(r.v, NatToBig(Byte0)))

\* The try_fold closure (lines 44 - 52) on byte c: st.o is the fold's value
\* so far ("some" with the accumulator st.x, "none", or "panic" when an
\* overflow check of the build fails), st.consumed the captured counter.
StepInt(st, t, checks) ==
    IF checks /\ t.ovf
    THEN [o |-> "panic", x |-> st.x, consumed |-> st.consumed + 1]
    ELSE [o |-> "some", x |-> t.v, consumed |-> st.consumed + 1]
LeadingIntStep(st, c, checks) ==
    IF BGt(st.x, U64MaxDiv10)
    THEN [o |-> "none", x |-> st.x, consumed |-> st.consumed + 1]
    ELSE StepInt(st, MinusByte0(PlusByte(TimesTen(st.x), c)), checks)

\* take_while(digit).try_fold(0u64, ..) from byte i of s on (lines 41 - 52)
RECURSIVE LeadingIntFold(_, _, _, _)
LeadingIntFold(s, i, st, checks) ==
    IF st.o # "some" \/ i > Len(s) THEN st
    ELSE IF ~IsDigit(s[i]) THEN st
    ELSE LeadingIntFold(s, i + 1, LeadingIntStep(st, s[i], checks), checks)

\* the value of leading_int(s) after the fold ended in st (lines 52 - 57)
IntResult(s, st) ==
    CASE st.o = "some"  -> [kind |-> "ok", v |-> st.x, rest |-> SliceFrom(s, st.consumed)]
      [] st.o = "none"  -> [kind |-> "err", v |-> <<>>, rest |-> <<>>]
      [] st.o = "panic" -> [kind |-> "panic", v |-> <<>>, rest |-> <<>>]

\* leading_int(s): Ok((v, rest)), Err(BadInteger), or a panic
leading_int(s, checks) ==
    IntResult(s, LeadingIntFold(s, 1, [o |-> "some", x |-> <<>>, consumed |-> 0], checks))

---------------------------------------------------------------------------
(* leading_fraction (lines 63 - 95)                                        *)

I64MaxDiv10 == BDivSmall(I64Max, 10)
F64One == F64FromInt(One)
F64Ten == F64FromInt(NatToBig(10))

\* The rest of the closure (lines 83 - 90) given t2 = x * 10 + c, exact.
\* The product fits (x is at most i64::MAX / 10); the sum t2 may exceed
\* i64::MAX, which panics with overflow checks and otherwise wraps, and then
\* y = t2 - 48 (mod 2^64) is negative exactly when t2 - 48 > i64::MAX.
StepFraction(st, t2, checks) ==
    IF checks /\ BGt(t2, I64Max)
    THEN [st EXCEPT !.consumed = @ + 1, !.panic = TRUE]
    ELSE IF BGt(BSub(t2, NatToBig(Byte0)), I64Max)
    THEN [st EXCEPT !.consumed = @ + 1, !.overflow = TRUE]
    ELSE [st EXCEPT !.consumed = @ + 1, !.x = BSub(t2, NatToBig(Byte0)),
                    !.scale = F64Mul(st.scale, F64Ten)]

\* The try_fold closure (lines 71 - 91) on byte c.  x is a non-negative i64.
LeadingFractionStep(st, c, checks) ==
    IF st.overflow THEN [st EXCEPT !.consumed = @ + 1]
    ELSE IF BGt(st.x, I64MaxDiv10)
    THEN [st EXCEPT !.consumed = @ + 1, !.overflow = TRUE]
    ELSE StepFraction(st, BAdd(BMulSmall(st.x, 10), NatToBig(c)), checks)

\* take_while(digit).try_fold(0, ..) from byte i of s on (lines 68 - 92)
RECURSIVE LeadingFractionFold(_, _, _, _)
LeadingFractionFold(s, i, st, checks) ==
    IF st.panic \/ i > Len(s) THEN st
    ELSE IF ~IsDigit(s[i]) THEN st
    ELSE LeadingFractionFold(s, i + 1, LeadingFractionStep(st, s[i], checks), checks)

\* the value of leading_fraction(s) after the fold ended in st (line 94)
FractionResult(s, st) ==
    [kind |-> IF st.panic THEN "panic" ELSE "ok",
     f |-> st.x, scale |-> st.scale, rest |-> SliceFrom(s, st.consumed)]

\* leading_fraction(s): (f, scale, rest), or a panic
leading_fraction(s, checks) ==
    FractionResult(s, LeadingFractionFold(s, 1,
        [x |-> <<>>, scale |-> F64One, overflow |-> FALSE,
         consumed |-> 0, panic |-> FALSE], checks))

---------------------------------------------------------------------------
(* to_string, fmt_frac, fmt_int (lines 237 - 378)                          *)

BufLen == 32

\* The buffer and its write index: b.buf[i + 1] is the code's buf[i].
\* b.panic: an index decrement below 0 or a write out of bounds.
NewBuf == [w |-> BufLen, buf |-> [i \in 1..BufLen |-> 0], panic |-> FALSE]

\* a variant of Put for a buffer 8 bytes shorter: no room below index 8
PutShort(b, c) ==
    IF b.panic \/ b.w <= 8 THEN [b EXCEPT !.panic = TRUE]
    ELSE [w |-> b.w - 1, buf |-> [b.buf EXCEPT ![b.w] = c], panic |-> FALSE]

\* w -= 1; buf[w] = c
Put(b, c) ==
    IF b.panic \/ b.w = 0 THEN [b EXCEPT !.panic = TRUE]
    ELSE [w |-> b.w - 1, buf |-> [b.buf EXCEPT ![b.w] = c], panic |-> FALSE]

\* a variant of FmtFracStep that prints every digit, trailing zeros too
FmtFracStepAll(st, print) ==
    [b     |-> Put(st.b, BModSmall(st.v, 10) + Byte0),
     v     |-> BDivSmall(st.v, 10),
     print |-> TRUE]

\* one iteration of the loop of fmt_frac (lines 344 - 351)
FmtFracStep(st, print) ==
    [b     |-> IF print THEN Put(st.b, BModSmall(st.v, 10) + Byte0) ELSE st.b,
     v     |-> BDivSmall(st.v, 10),
     print |-> print]

\* the loop of fmt_frac (lines 343 - 352), n iterations left
RECURSIVE FmtFracLoop(_, _)
FmtFracLoop(st, n) ==
    IF n = 0 THEN st
    ELSE FmtFracLoop(FmtFracStep(st, st.print \/ BModSmall(st.v, 10) # 0), n - 1)

\* lines 354 - 359
FmtFracEnd(st) == [b |-> IF st.print THEN Put(st.b, ByteDot) ELSE st.b, v |-> st.v]

\* fmt_frac(&mut buf[..w], v, prec): the buffer with the new w, and v / 10^prec
fmt_frac(b, v, prec) == FmtFracEnd(FmtFracLoop([b |-> b, v |-> v, print |-> FALSE], prec))

\* the while loop of fmt_int (lines 370 - 374)
RECURSIVE FmtIntLoop(_)
FmtIntLoop(st) ==
    IF st.v = <<>> THEN st
    ELSE FmtIntLoop([b |-> Put(st.b, BModSmall(st.v, 10) + Byte0),
                     v |-> BDivSmall(st.v, 10)])

\* fmt_int(&mut buf[..w], v): the buffer with the new w
fmt_int(b, v) ==
    IF v = <<>> THEN Put(b, Byte0)
    ELSE FmtIntLoop([b |-> b, v |-> v]).b

\* fmt_int(&mut buf[..w], u % 60)
FmtIntMod60(b, x) == fmt_int(b, NatToBig(BModSmall(x, 60)))

\* lines 277 - 280: the digits, fr being fmt_frac's result
FracThenInt(fr) == fmt_int(fr.b, fr.v)

\* the branch for u < SECOND (lines 246 - 280), u # 0: 's' (lines 249 -
\* 250), the unit byte (lines 251 - 275), then the digits
FormatSubSecond(u) ==
    IF BLt(u, MICROSECOND)
    THEN FracThenInt(fmt_frac(Put(Put(NewBuf, 115), 110), u, 0))   \* "ns"
    ELSE IF BLt(u, MILLISECOND)
    THEN FracThenInt(fmt_frac(Put(Put(NewBuf, 115), 117), u, 3))   \* "us"
    ELSE FracThenInt(fmt_frac(Put(Put(NewBuf, 115), 109), u, 6))   \* "ms"

\* lines 283 - 291: seconds with a fraction; st.u is the integer seconds
SecondsFrac(fr) == [b |-> FmtIntMod60(fr.b, fr.v), u |-> fr.v]

\* lines 293 - 302: whole seconds, secs = u / SECOND
SecondsWhole(secs) ==
    [b |-> IF BModSmall(secs, 60) # 0 THEN FmtIntMod60(Put(NewBuf, 115), secs)
           ELSE NewBuf,
     u |-> secs]

\* a variant of Minutes that prints the minutes whenever u > 0, zero or not
MinutesAlways(b, mins) ==
    [b |-> IF mins # <<>> THEN FmtIntMod60(Put(b, 109), mins) ELSE b,
     u |-> mins]

\* lines 305 - 313: u /= 60, and the minutes when u > 0 and u % 60 != 0
Minutes(b, mins) ==
    [b |-> IF mins # <<>> /\ BModSmall(mins, 60) # 0
           THEN FmtIntMod60(Put(b, 109), mins) ELSE b,
     u |-> mins]

\* lines 315 - 323: u /= 60, and the hours when u > 0
Hours(b, mins, hrs) ==
    IF mins # <<>> /\ hrs # <<>> THEN fmt_int(Put(b, 104), hrs) ELSE b

FormatMinutes(st) == Minutes(st.b, BDivSmall(st.u, 60))
FormatHours(st) == Hours(st.b, st.u, BDivSmall(st.u, 60))

\* the branch for u >= SECOND (lines 281 - 325)
FormatSeconds(u) ==
    IF BMod(u, SECOND) # <<>>
    THEN FormatHours(FormatMinutes(SecondsFrac(fmt_frac(Put(NewBuf, 115), u, 9))))
    ELSE FormatHours(FormatMinutes(SecondsWhole(BDiv(u, SECOND))))

\* lines 327 - 330: the sign
Sign(b, neg) == IF neg THEN Put(b, ByteMinus) ELSE b

\* line 332: the written part of the buffer
Finish(b) ==
    IF b.panic THEN [kind |-> "panic", str |-> <<>>]
    ELSE [kind |-> "ok", str |-> SubSeq(b.buf, b.w + 1, BufLen)]

\* to_string(d) for the i64 with bit pattern d: the bytes of the string,
\* or a panic.  neg is d < 0, and `d as u64` (line 243) keeps the bit
\* pattern, so that u is d itself.
to_string(d) ==
    IF d = <<>> THEN [kind |-> "ok", str |-> <<Byte0, 115>>]
    ELSE IF BLt(d, SECOND) THEN Finish(Sign(FormatSubSecond(d), BGe(d, TwoPow63)))
    ELSE Finish(Sign(FormatSeconds(d), BGe(d, TwoPow63)))

---------------------------------------------------------------------------
(* State                                                                   *)

VARIABLES
    checks,   \* the build: TRUE with overflow checks (dev, test), FALSE without
    op,       \* the function called: "to_string", "parse_duration", "leading_int"
    pc,       \* where the call in progress is
    d_in,     \* to_string's argument d (an i64 bit pattern)
    text,     \* parse's argument (bytes)
    s,        \* parse: the unconsumed input
    d,        \* parse: the running total (u64)
    neg,      \* parse: the sign flag
    v,        \* parse: the current term's value (u64)
    f,        \* parse: the current term's fraction numerator (i64 >= 0)
    scale,    \* parse: the current term's fraction scale (f64)
    u,        \* parse: the current term's unit token (bytes)
    unit,     \* parse: the current term's unit multiplier (u64)
    ret,      \* parse's result
    dur,      \* parse_duration's result
    li,       \* the direct leading_int call: its argument and result
    lf        \* the direct leading_fraction call: its argument and result

vars == <<checks, op, pc, d_in, text, s, d, neg, v, f, scale, u, unit, ret, dur, li, lf>>

\* Results.  val is an i64 bit pattern; err is the Error variant.
NoRet   == [kind |-> "none", val |-> <<>>, err |-> ""]
Ok(x)   == [kind |-> "ok", val |-> x, err |-> ""]
Err(e)  == [kind |-> "err", val |-> <<>>, err |-> e]
Panic   == [kind |-> "panic", val |-> <<>>, err |-> ""]

---------------------------------------------------------------------------
(* parse (lines 107 - 227), one step per stretch of straight-line code.    *)
(* A step maps the locals p of parse (with its position p.pc and, once it  *)
(* has returned, its result p.ret) to the locals after the step.           *)

\* the locals on entry
Entry ==
    [pc |-> "begin", s |-> <<>>, d |-> <<>>, neg |-> FALSE, v |-> <<>>, f |-> <<>>,
     scale |-> F64One, u |-> <<>>, unit |-> <<>>, ret |-> NoRet]

\* return r
Return(p, r) == [p EXCEPT !.ret = r, !.pc = "returned"]

\* lines 113 - 120: is there a sign, and the text after it
HasSign(t) == t # <<>> /\ (t[1] = ByteMinus \/ t[1] = BytePlus)
AfterSign(t) == IF HasSign(t) THEN SliceFrom(t, 1) ELSE t

\* lines 122 - 129: the "0" special case and the empty input
BeginAt(p) ==
    IF Len(p.s) = 1 /\ p.s[1] = Byte0 THEN Return(p, Ok(<<>>))
    ELSE IF p.s = <<>> THEN Return(p, Err("InvalidDuration"))
    ELSE [p EXCEPT !.pc = "number"]

\* lines 109 - 129
Begin(p, t) ==
    BeginAt([p EXCEPT !.d = <<>>, !.neg = HasSign(t) /\ t[1] = ByteMinus,
                      !.s = AfterSign(t)])

\* lines 148 - 162 after leading_int returned int, frac being what
\* leading_fraction returns for the bytes after int.rest's first
NumberFraction(p, int, frac) ==
    IF int.rest # <<>> /\ int.rest[1] = ByteDot
    THEN IF frac.kind = "panic"
         THEN Return([p EXCEPT !.v = int.v, !.s = SliceFrom(int.rest, 1)], Panic)
         ELSE IF Len(p.s) = Len(int.rest) /\ Len(int.rest) - 1 = Len(frac.rest)
         THEN Return([p EXCEPT !.v = int.v, !.f = frac.f, !.scale = frac.scale,
                               !.s = frac.rest], Err("InvalidDuration"))
         ELSE [p EXCEPT !.v = int.v, !.f = frac.f, !.scale = frac.scale,
                        !.s = frac.rest, !.pc = "unit"]
    ELSE IF Len(p.s) = Len(int.rest)
         THEN Return([p EXCEPT !.v = int.v, !.f = <<>>, !.scale = F64One,
                               !.s = int.rest], Err("InvalidDuration"))
         ELSE [p EXCEPT !.v = int.v, !.f = <<>>, !.scale = F64One,
                        !.s = int.rest, !.pc = "unit"]

\* lines 141 - 146: `leading_int(s)?`
NumberInt(p, int, chk) ==
    IF int.kind = "err" THEN Return(p, Err("BadInteger"))
    ELSE IF int.kind = "panic" THEN Return(p, Panic)
    ELSE NumberFraction(p, int, leading_fraction(SliceFrom(int.rest, 1), chk))

\* lines 132 - 162: the digits of one term, [0-9]*(\.[0-9]*)?
Number(p, chk) ==
    IF ~(p.s[1] = ByteDot \/ IsDigit(p.s[1])) THEN Return(p, Err("InvalidDuration"))
    ELSE NumberInt(p, leading_int(p.s, chk), chk)

\* a variant of UnitOf that knows the ASCII tokens only
UnitOfAscii(tok) ==
    CASE tok = <<110, 115>> -> NANOSECOND
      [] tok = <<117, 115>> -> MICROSECOND
      [] tok = <<109, 115>> -> MILLISECOND
      [] tok = <<115>>      -> SECOND
      [] tok = <<109>>      -> MINUTE
      [] tok = <<104>>      -> HOUR
      [] tok = <<100>>      -> DAY
      [] tok = <<119>>      -> WEEK
      [] OTHER              -> <<>>

\* the multiplier of unit token tok (lines 180 - 194), zero when unknown
UnitOf(tok) ==
    CASE tok = <<110, 115>>      -> NANOSECOND      \* "ns"
      [] tok = <<117, 115>>      -> MICROSECOND     \* "us"
      [] tok = <<194, 181, 115>> -> MICROSECOND     \* U+00B5 "s"
      [] tok = <<206, 188, 115>> -> MICROSECOND     \* U+03BC "s"
      [] tok = <<109, 115>>      -> MILLISECOND     \* "ms"
      [] tok = <<115>>           -> SECOND          \* "s"
      [] tok = <<109>>           -> MINUTE          \* "m"
      [] tok = <<104>>           -> HOUR            \* "h"
      [] tok = <<100>>           -> DAY             \* "d"
      [] tok = <<119>>           -> WEEK            \* "w"
      [] OTHER                   -> <<>>

\* a variant of UnitLen whose loop breaks at a digit only
UnitLenToDigit(b) ==
    IF \A j \in 1..Len(b) : ~IsDigit(b[j]) THEN Len(b)
    ELSE (CHOOSE j \in 1..Len(b) :
            IsDigit(b[j]) /\ \A k \in 1..(j - 1) : ~IsDigit(b[k])) - 1

\* the value of i after the loop of lines 165 - 173: the number of bytes of
\* b before its first byte that is '.' or a digit
UnitLen(b) ==
    IF \A j \in 1..Len(b) : ~(b[j] = ByteDot \/ IsDigit(b[j])) THEN Len(b)
    ELSE (CHOOSE j \in 1..Len(b) :
            /\ b[j] = ByteDot \/ IsDigit(b[j])
            /\ \A k \in 1..(j - 1) : ~(b[k] = ByteDot \/ IsDigit(b[k]))) - 1

\* lines 178 - 197: the token of i bytes and its multiplier mult
UnitMatch(p, i, mult) ==
    IF mult = <<>>
    THEN Return([p EXCEPT !.u = SubSeq(p.s, 1, i), !.s = SliceFrom(p.s, i),
                          !.unit = mult], Err("UnknownUnit"))
    ELSE [p EXCEPT !.u = SubSeq(p.s, 1, i), !.s = SliceFrom(p.s, i),
                   !.unit = mult, !.pc = "accum"]

\* lines 175 - 197
UnitToken(p, i) ==
    IF i = 0 THEN Return(p, Err("MissingUnit"))
    ELSE UnitMatch(p, i, UnitOf(SubSeq(p.s, 1, i)))

\* lines 164 - 197: the unit token of the term
Unit(p) == UnitToken(p, UnitLen(p.s))

\* (f as f64 * (unit as f64 / scale)) as u64   (line 208)
FractionNanos(fr, un, sc) ==
    F64ToU64(F64Mul(F64FromInt(fr), F64Div(F64FromInt(un), sc)))

\* the checked_add of line 208, a being the sum
CheckedAdd(a) ==
    IF a.ovf THEN [kind |-> "err", v |-> <<>>] ELSE [kind |-> "ok", v |-> a.v]

\* lines 203 - 210, m being v * unit
Scaled(m, fr, sc, un, chk) ==
    IF chk /\ m.ovf THEN [kind |-> "panic", v |-> <<>>]
    ELSE IF fr = <<>> THEN [kind |-> "ok", v |-> m.v]
    ELSE CheckedAdd(U64Add(m.v, FractionNanos(fr, un, sc)))

\* lines 199 - 210: the term's value in nanoseconds, v * unit + fraction:
\* [kind |-> "ok", v], "err" (InvalidDuration) or "panic"
TermValue(tv, fr, sc, un, chk) ==
    IF BGt(tv, BDiv(TwoPow63, un)) THEN [kind |-> "err", v |-> <<>>]
    ELSE Scaled(U64Mul(tv, un), fr, sc, un, chk)

\* a variant of Accumulate that keeps the last term only
AccumulateLast(total, tv) == U64Add(<<>>, tv)

\* d += v   (line 212)
Accumulate(total, tv) == U64Add(total, tv)

\* lines 212 - 216, sum being d + v: the range test and the loop test
AccumTotal(p, t, sum, chk) ==
    IF chk /\ sum.ovf THEN Return([p EXCEPT !.v = t.v], Panic)
    ELSE IF BGt(sum.v, TwoPow63)
    THEN Return([p EXCEPT !.v = t.v, !.d = sum.v], Err("InvalidDuration"))
    ELSE [p EXCEPT !.v = t.v, !.d = sum.v,
                   !.pc = IF p.s = <<>> THEN "end" ELSE "number"]

\* lines 199 - 216 with the term's value t
AccumTerm(p, t, chk) ==
    IF t.kind = "err" THEN Return(p, Err("InvalidDuration"))
    ELSE IF t.kind = "panic" THEN Return(p, Panic)
    ELSE AccumTotal(p, t, Accumulate(p.d, t.v), chk)

\* lines 199 - 216: scale the term, add it to the total, test the loop
Accum(p, chk) == AccumTerm(p, TermValue(p.v, p.f, p.scale, p.unit, chk), chk)

\* -(x) for the i64 with bit pattern x
I64Neg(x) ==
    [v |-> IF x = <<>> THEN x ELSE BSub(TwoPow64, x), ovf |-> x = TwoPow63]

\* lines 218 - 220 with n = -(d as i64)
EndNeg(p, n, chk) ==
    IF chk /\ n.ovf THEN Return(p, Panic) ELSE Return(p, Ok(n.v))

\* lines 218 - 226: the sign and the final range check
End(p, chk) ==
    IF p.neg THEN EndNeg(p, I64Neg(p.d), chk)
    ELSE IF BGt(p.d, BSub(TwoPow63, One)) THEN Return(p, Err("InvalidDuration"))
    ELSE Return(p, Ok(p.d))

\* the step at p.pc
Step(p, chk) ==
    CASE p.pc = "number" -> Number(p, chk)
      [] p.pc = "unit"   -> Unit(p)
      [] p.pc = "accum"  -> Accum(p, chk)
      [] p.pc = "end"    -> End(p, chk)

\* the steps from p until parse returns
RECURSIVE Run(_, _)
Run(p, chk) == IF p.pc = "returned" THEN p ELSE Run(Step(p, chk), chk)

\* parse(t): Ok(val), Err(err) or a panic
parse(t, chk) == Run(Begin(Entry, t), chk).ret

\* parse_duration (lines 101 - 105) given what parse returned: `?` passes
\* the error on, and Duration::from_nanos(d as u64) holds the bit pattern
\* as a u64 count of nanoseconds
FromNanos(r) ==
    IF r.kind = "ok" THEN [kind |-> "ok", nanos |-> r.val, err |-> ""]
    ELSE [kind |-> r.kind, nanos |-> <<>>, err |-> r.err]

parse_duration(t, chk) == FromNanos(parse(t, chk))

---------------------------------------------------------------------------
(* The call of parse in progress                                           *)

\* the locals of parse, and the assignment of the locals p to them
Locals ==
    [pc |-> pc, s |-> s, d |-> d, neg |-> neg, v |-> v, f |-> f, scale |-> scale,
     u |-> u, unit |-> unit, ret |-> ret]

Assign(p) ==
    /\ pc' = p.pc /\ s' = p.s /\ d' = p.d /\ neg' = p.neg /\ v' = p.v /\ f' = p.f
    /\ scale' = p.scale /\ u' = p.u /\ unit' = p.unit /\ ret' = p.ret

ParseBegin ==
    /\ pc = "begin"
    /\ \E p \in {Begin(Locals, text)} : Assign(p)
    /\ UNCHANGED <<checks, op, d_in, text, dur, li, lf>>

ParseNumber ==
    /\ pc = "number"
    /\ \E p \in {Number(Locals, checks)} : Assign(p)
    /\ UNCHANGED <<checks, op, d_in, text, dur, li, lf>>

ParseUnit ==
    /\ pc = "unit"
    /\ \E p \in {Unit(Locals)} : Assign(p)
    /\ UNCHANGED <<checks, op, d_in, text, dur, li, lf>>

ParseAccum ==
    /\ pc = "accum"
    /\ \E p \in {Accum(Locals, checks)} : Assign(p)
    /\ UNCHANGED <<checks, op, d_in, text, dur, li, lf>>

ParseEnd ==
    /\ pc = "end"
    /\ \E p \in {End(Locals, checks)} : Assign(p)
    /\ UNCHANGED <<checks, op, d_in, text, dur, li, lf>>

\* parse_duration returns
ParseDurationReturn ==
    /\ pc = "returned"
    /\ pc' = "done"
    /\ dur' = FromNanos(ret)
    /\ UNCHANGED <<checks, op, d_in, text, s, d, neg, v, f, scale, u, unit, ret, li, lf>>

---------------------------------------------------------------------------
(* The inputs of the calls                                                 *)

\* the ASCII string of the decimal digits ds
Dig(ds) == [i \in 1..Len(ds) |-> Byte0 + ds[i]]

RECURSIVE Concat(_)
Concat(ss) == IF ss = <<>> THEN <<>> ELSE Head(ss) \o Concat(Tail(ss))

\* the most terms in a composite input
MaxTerms == 2

\* integer parts: "", 0, 1, 12, and the values around 2^63 and 2^64
IntSmall == {<<>>, Dig(<<0>>), Dig(<<1>>), Dig(<<1, 2>>)}
IntBig ==
    { Dig(<<9,2,2,3,3,7,2,0,3,6,8,5,4,7,7,5,8,0,7>>),       \* 2^63 - 1
      Dig(<<9,2,2,3,3,7,2,0,3,6,8,5,4,7,7,5,8,0,8>>),       \* 2^63
      Dig(<<9,2,2,3,3,7,2,0,3,6,8,5,4,7,7,5,8,0,9>>),       \* 2^63 + 1
      Dig(<<1,8,4,4,6,7,4,4,0,7,3,7,0,9,5,5,1,6,1,0>>),     \* 2^64 - 6
      Dig(<<1,8,4,4,6,7,4,4,0,7,3,7,0,9,5,5,1,6,1,5>>),     \* 2^64 - 1
      Dig(<<1,8,4,4,6,7,4,4,0,7,3,7,0,9,5,5,1,6,1,6>>),     \* 2^64
      Dig(<<1,8,4,4,6,7,4,4,0,7,3,7,0,9,5,5,1,6,1,9>>),     \* 2^64 + 3
      Dig(<<1,8,4,4,6,7,4,4,0,7,3,7,0,9,5,5,1,6,2,0>>),     \* 2^64 + 4
      Dig(<<1,8,4,4,6,7,4,4,0,7,3,7,0,9,5,5,1,6,1,6,5>>),   \* 10 * 2^64 + 5
      Dig(<<9,9,9,9,9,9,9,9,9,9,9,9,9,9,9,9,9,9,9,9,9>>) }  \* 10^21 - 1

\* fractions: none, ".", a few digits, and digits up to and past the i64 range
FracParts ==
    { <<>>, <<ByteDot>>,
      <<ByteDot>> \o Dig(<<5>>),
      <<ByteDot>> \o Dig(<<0,0,4,0>>) }
FracLong ==
    { <<ByteDot>> \o Dig(<<3,3,3,3,3,3,3,3,3,3,3,3,3,3,3,3,3,3,3>>),
      <<ByteDot>> \o Dig(<<9,2,2,3,3,7,2,0,3,6,8,5,4,7,7,5,8,0,8,1>>) }

ValidUnits ==
    { <<110, 115>>, <<117, 115>>, <<194, 181, 115>>, <<206, 188, 115>>,
      <<109, 115>>, <<115>>, <<109>>, <<104>>, <<100>>, <<119>> }

\* "", "x", "S", "Ms", "sm", "hh", "n", U+00B5 alone, U+03BC "S", " s", "-s"
OtherUnits ==
    { <<>>, <<120>>, <<83>>, <<77, 115>>, <<115, 109>>, <<104, 104>>, <<110>>,
      <<194, 181>>, <<206, 188, 83>>, <<32, 115>>, <<ByteMinus, 115>> }

\* single terms: every small number with every unit token, the large
\* integers in nanoseconds, seconds and weeks, and the long fractions
SingleTerms ==
    {i \o fr \o un : i \in IntSmall, fr \in FracParts, un \in ValidUnits \cup OtherUnits}
    \cup {i \o un : i \in IntBig, un \in {<<110, 115>>, <<115>>, <<119>>, <<>>}}
    \cup {i \o fr \o un : i \in {<<>>, Dig(<<1>>)}, fr \in FracLong, un \in {<<115>>, <<>>}}

\* the terms composite inputs are made of
CoreTerms ==
    { Dig(<<1>>) \o <<104>>,                                           \* 1h
      Dig(<<1,2>>) \o <<109>>,                                         \* 12m
      Dig(<<1>>) \o <<ByteDot>> \o Dig(<<5>>) \o <<115>>,              \* 1.5s
      <<ByteDot>> \o Dig(<<5>>) \o <<109, 115>>,                       \* .5ms
      Dig(<<1,2>>) \o <<194, 181, 115>>,                               \* 12 U+00B5 s
      Dig(<<1>>) \o <<110, 115>>,                                      \* 1ns
      Dig(<<1,5,2,5,0>>) \o <<119>>,                                   \* 15250w
      Dig(<<9,2,2,3,3,7,2,0,3,6>>) \o <<115>>,                         \* 9223372036s
      Dig(<<8,5,4,7,7,5,8,0,7>>) \o <<110, 115>>,                      \* 854775807ns
      Dig(<<8,5,4,7,7,5,8,0,8>>) \o <<110, 115>>,                      \* 854775808ns
      Dig(<<9,2,2,3,3,7,2,0,3,6,8,5,4,7,7,5,8,0,7>>) \o <<110, 115>>,  \* (2^63-1)ns
      Dig(<<9,2,2,3,3,7,2,0,3,6,8,5,4,7,7,5,8,0,8>>) \o <<110, 115>>,  \* (2^63)ns
      Dig(<<1>>) \o <<ByteDot>>,                                       \* 1.
      Dig(<<5>>),                                                      \* 5
      Dig(<<1>>) \o <<120>> }                                          \* 1x

Composites ==
    {Concat(ts) : ts \in UNION {[1..n -> CoreTerms] : n \in 2..MaxTerms}}

Signs == {<<>>, <<ByteMinus>>, <<BytePlus>>}

\* the texts given to parse_duration
ParseInputs ==
    {sg \o t : sg \in Signs, t \in {<<>>, <<ByteDot>>, <<115>>} \cup SingleTerms \cup CoreTerms \cup Composites}

\* the byte strings given to leading_int
LeadingIntInputs ==
    {i \o r : i \in IntSmall \cup IntBig, r \in {<<>>, <<104>>, <<ByteDot>> \o Dig(<<5>>) \o <<115>>}}

\* the digits given to leading_fraction: none, a few, the values around
\* i64::MAX / 10 and i64::MAX, and runs of more than 22 digits
FractionDigits ==
    { <<>>, Dig(<<6>>), Dig(<<0,0,4,0>>),
      Dig(<<3,3,3,3,3,3,3,3,3,3,3,3,3,3,3,3,3,3,3>>),
      Dig(<<9,2,2,3,3,7,2,0,3,6,8,5,4,7,7,5,7,5,9>>),       \* 2^63 - 49
      Dig(<<9,2,2,3,3,7,2,0,3,6,8,5,4,7,7,5,7,6,0>>),       \* 2^63 - 48
      Dig(<<9,2,2,3,3,7,2,0,3,6,8,5,4,7,7,5,8,0,7>>),       \* 2^63 - 1
      Dig(<<9,2,2,3,3,7,2,0,3,6,8,5,4,7,7,5,8,0,8>>),       \* 2^63
      Dig(<<9,2,2,3,3,7,2,0,3,6,8,5,4,7,7,5,8,0,8,1>>),
      Dig(<<9,2,2,3,3,7,2,0,3,6,8,5,4,7,7,5,8,1,0>>),
      Dig(<<8,3,0,1,0,3,4,8,3,2,8,5,4,7,7,5,8,0,7,0,0>>),
      Dig(<<9,9,9,9,9,9,9,9,9,9,9,9,9,9,9,9,9,9,9,9,9>>),
      Dig(<<0,0,0,0,0,0,0,0,0,0,0,0,0,0,0,0,0,0,0,0,0,0,1>>),
      Dig(<<0,0,0,0,0,0,0,0,0,0,0,0,0,0,0,0,0,0,0,0,0,0,0,0,1>>) }

\* the byte strings given to leading_fraction
LeadingFractionInputs ==
    {ds \o r : ds \in FractionDigits, r \in {<<>>, <<115>>, <<104>> \o Dig(<<5>>)}}

\* the magnitudes given to to_string: h hours + m minutes + sc seconds + ns
Magnitudes ==
    { BAdd(BAdd(BMul(HOUR, NatToBig(h)), BMulSmall(MINUTE, m)),
           BAdd(BMulSmall(SECOND, sc), ns)) :
        h \in {0, 1, 2562047}, m \in {0, 1, 47}, sc \in {0, 1, 16},
        ns \in { <<>>, One, NatToBig(999), NatToBig(1100), NatToBig(2200000),
                 NatToBig(100000000), NatToBig(854775807), NatToBig(999999999) } }

\* values below one second at the edges of the three units
SubSecondInputs ==
    { NatToBig(1000), NatToBig(1001), NatToBig(999999), NatToBig(1000000),
      NatToBig(1010000), NatToBig(999999000) }

\* the i64 values given to to_string, as bit patterns: every magnitude up to
\* i64::MAX, its negation, i64::MIN, and the values below one second
FormatInputs ==
    {m \in Magnitudes : BLe(m, I64Max)}
    \cup {I64Neg(m).v : m \in {x \in Magnitudes : BLe(x, I64Max)}}
    \cup {TwoPow63}
    \cup SubSecondInputs

---------------------------------------------------------------------------
(* The calls                                                               *)

Init ==
    /\ checks \in BOOLEAN
    /\ op = "none"
    /\ pc = "idle"
    /\ d_in = <<>>
    /\ text = <<>>
    /\ s = <<>>
    /\ d = <<>>
    /\ neg = FALSE
    /\ v = <<>>
    /\ f = <<>>
    /\ scale = F64One
    /\ u = <<>>
    /\ unit = <<>>
    /\ ret = NoRet
    /\ dur = [kind |-> "none", nanos |-> <<>>, err |-> ""]
    /\ li = [arg |-> <<>>, res |-> [kind |-> "none", v |-> <<>>, rest |-> <<>>]]
    /\ lf = [arg |-> <<>>,
             res |-> [kind |-> "none", f |-> <<>>, scale |-> F64One, rest |-> <<>>]]

\* parse_duration(t)
CallParseDuration ==
    /\ pc = "idle"
    /\ \E t \in ParseInputs : text' = t
    /\ op' = "parse_duration"
    /\ pc' = "begin"
    /\ UNCHANGED <<checks, d_in, ret, dur, li, lf>>
    /\ UNCHANGED <<s, d, neg, v, f, scale, u, unit>>

\* to_string(x)
CallToString ==
    /\ pc = "idle"
    /\ \E x \in FormatInputs : \E r \in {to_string(x)} :
          /\ d_in' = x
          /\ text' = r.str
          /\ pc' = IF r.kind = "ok" THEN "formatted" ELSE "done"
    /\ op' = "to_string"
    /\ UNCHANGED <<checks, ret, dur, li, lf>>
    /\ UNCHANGED <<s, d, neg, v, f, scale, u, unit>>

\* the string to_string returned is parsed back
ParseFormatted ==
    /\ pc = "formatted"
    /\ pc' = "begin"
    /\ UNCHANGED <<checks, op, d_in, text, ret, dur, li, lf>>
    /\ UNCHANGED <<s, d, neg, v, f, scale, u, unit>>

\* leading_int(b)
CallLeadingInt ==
    /\ pc = "idle"
    /\ \E b \in LeadingIntInputs : li' = [arg |-> b, res |-> leading_int(b, checks)]
    /\ op' = "leading_int"
    /\ pc' = "done"
    /\ UNCHANGED <<checks, d_in, text, ret, dur, lf>>
    /\ UNCHANGED <<s, d, neg, v, f, scale, u, unit>>

\* leading_fraction(b)
CallLeadingFraction ==
    /\ pc = "idle"
    /\ \E b \in LeadingFractionInputs :
          lf' = [arg |-> b, res |-> leading_fraction(b, checks)]
    /\ op' = "leading_fraction"
    /\ pc' = "done"
    /\ UNCHANGED <<checks, d_in, text, ret, dur, li>>
    /\ UNCHANGED <<s, d, neg, v, f, scale, u, unit>>

Next ==
    \/ CallParseDuration
    \/ CallToString
    \/ ParseFormatted
    \/ CallLeadingInt
    \/ CallLeadingFraction
    \/ ParseBegin
    \/ ParseNumber
    \/ ParseUnit
    \/ ParseAccum
    \/ ParseEnd
    \/ ParseDurationReturn

Spec == Init /\ [][Next]_vars

---------------------------------------------------------------------------
(* Reference values the properties compare the program with                *)

\* the exact value of the decimal digits (ASCII bytes) b, from byte i on,
\* acc being the value of the bytes before i (the test of acc's length has
\* acc evaluated at every byte)
RECURSIVE DecFrom(_, _, _)
DecFrom(b, i, acc) ==
    IF i > Len(b) \/ Len(acc) < 0 THEN acc
    ELSE DecFrom(b, i + 1, BAdd(BMulSmall(acc, 10), NatToBig(b[i] - Byte0)))
DecValue(b) == DecFrom(b, 1, <<>>)

\* the length of the maximal leading run of ASCII digits of b
DigitRun(b) ==
    IF \A j \in 1..Len(b) : IsDigit(b[j]) THEN Len(b)
    ELSE (CHOOSE j \in 1..Len(b) :
            ~IsDigit(b[j]) /\ \A k \in 1..(j - 1) : IsDigit(b[k])) - 1

\* a * 10^k
RECURSIVE TimesPow10(_, _)
TimesPow10(a, k) == IF k = 0 THEN a ELSE TimesPow10(BMulSmall(a, 10), k - 1)

\* the multiplier in nanoseconds of a unit token, zero for any other token
UnitTable(tok) ==
    CASE tok = <<110, 115>>      -> NatToBig(1)                        \* ns
      [] tok = <<117, 115>>      -> TimesPow10(NatToBig(1), 3)         \* us
      [] tok = <<194, 181, 115>> -> TimesPow10(NatToBig(1), 3)         \* U+00B5 s
      [] tok = <<206, 188, 115>> -> TimesPow10(NatToBig(1), 3)         \* U+03BC s
      [] tok = <<109, 115>>      -> TimesPow10(NatToBig(1), 6)         \* ms
      [] tok = <<115>>           -> TimesPow10(NatToBig(1), 9)         \* s
      [] tok = <<109>>           -> TimesPow10(NatToBig(6), 10)        \* m
      [] tok = <<104>>           -> TimesPow10(NatToBig(36), 11)       \* h
      [] tok = <<100>>           -> TimesPow10(NatToBig(864), 11)      \* d
      [] tok = <<119>>           -> TimesPow10(NatToBig(6048), 11)     \* w
      [] OTHER                   -> <<>>

\* a byte of a number: a digit or '.'
IsNumberByte(c) == IsDigit(c) \/ c = ByteDot

\* byte k of b ends a term: it is a unit byte and no unit byte follows it
EndsTerm(b, k) ==
    ~IsNumberByte(b[k]) /\ (k = Len(b) \/ IsNumberByte(b[k + 1]))

\* the terms of b parsed one by one: n the number of terms, ok whether every
\* one of them parsed to a value, sum the exact sum of the values
AddTerm(acc, r) ==
    [n |-> acc.n + 1, ok |-> acc.ok /\ r.kind = "ok",
     sum |-> IF acc.ok /\ r.kind = "ok" THEN BAdd(acc.sum, r.val) ELSE <<>>]

\* from is the first byte of the term that byte k belongs to
RECURSIVE TermsFrom(_, _, _, _, _)
TermsFrom(b, from, k, acc, chk) ==
    IF k > Len(b) THEN [acc EXCEPT !.ok = @ /\ from > Len(b)]
    ELSE IF EndsTerm(b, k)
    THEN TermsFrom(b, k + 1, k + 1, AddTerm(acc, parse(SubSeq(b, from, k), chk)), chk)
    ELSE TermsFrom(b, from, k + 1, acc, chk)

EachTerm(b, chk) == TermsFrom(b, 1, 1, [n |-> 0, ok |-> TRUE, sum |-> <<>>], chk)

\* the integer an i64 bit pattern stands for, and the integer a u64 is
I64Value(x) ==
    IF BGe(x, TwoPow63) THEN [neg |-> TRUE, mag |-> BSub(TwoPow64, x)]
    ELSE [neg |-> FALSE, mag |-> x]
U64Value(x) == [neg |-> FALSE, mag |-> x]

---------------------------------------------------------------------------
(* Properties                                                              *)

\* C1: for every d in -(2^63-1) ..= 2^63-1, negative values included,
\* parse(to_string(d)) succeeds and returns exactly d.
C1_RoundTrip ==
    (op = "to_string" /\ pc = "done" /\ d_in # TwoPow63) => ret = Ok(d_in)

\* C2: for every negative d in -(2^63-1) ..= -1, to_string(d) is '-'
\* followed by to_string(-d).
C2_NegativeIsMinusAbs ==
    (op = "to_string" /\ pc = "formatted" /\ BGt(d_in, TwoPow63))
        => text = <<ByteMinus>> \o to_string(I64Neg(d_in).v).str

\* C3: when the exact sum of the term values exceeds 2^63 after adding a
\* term, parse returns InvalidDuration at that term, and the running total
\* it goes on with is the exact sum (it never wraps modulo 2^64).
C3_NoWrap ==
    [][pc = "accum" =>
          /\ BGt(BAdd(d, v'), TwoPow63) => ret' = Err("InvalidDuration")
          /\ pc' # "returned" => d' = BAdd(d, v')]_vars

\* C4: leading_int returns BadInteger if and only if the exact decimal
\* value of the maximal leading run of digits exceeds 2^64-1; otherwise it
\* returns exactly that value and the slice after the run.
C4_LeadingIntExact ==
    (op = "leading_int" /\ pc = "done") =>
        IF BGt(DecValue(SubSeq(li.arg, 1, DigitRun(li.arg))), U64Max)
        THEN li.res.kind = "err"
        ELSE li.res = [kind |-> "ok",
                       v    |-> DecValue(SubSeq(li.arg, 1, DigitRun(li.arg))),
                       rest |-> SliceFrom(li.arg, DigitRun(li.arg))]

\* C5: parse returns a value or one of the four Error kinds; no execution
\* of parse, leading_int or leading_fraction reaches an abort.
C5_NoAbort == ret.kind # "panic" /\ li.res.kind # "panic"

\* C6: a value v that parse returns has -(2^63-1) <= v <= 2^63-1: terms
\* that sum to 2^63-1 are accepted with that value, and terms that sum to
\* exactly 2^63 are rejected with InvalidDuration, with or without a '-'.
C6_Range ==
    [][pc = "end" =>
          /\ d = TwoPow63 => ret' = Err("InvalidDuration")
          /\ (d = I64Max /\ ~neg) => ret' = Ok(I64Max)
          /\ ret'.kind = "ok" => ret'.val # TwoPow63]_vars

\* C7: when parse returns the signed total v, parse_duration succeeds with
\* a duration whose nanosecond count equals v, for negative v as well.
C7_SignedCount ==
    (op = "parse_duration" /\ pc = "done" /\ ret.kind = "ok")
        => (dur.kind = "ok" /\ U64Value(dur.nanos) = I64Value(ret.val))

\* C8: for terms t1 .. tn, each of which parses to a value, whose values
\* sum to at most 2^63-1, parse(t1 t2 .. tn) is parse(t1) + .. + parse(tn).
C8_SumOfTerms ==
    (pc = "returned" /\ text # <<>> /\ ~HasSign(text))
        => \A ts \in {EachTerm(text, checks)} :
              (ts.ok /\ BLe(ts.sum, I64Max)) => ret = Ok(ts.sum)

\* C8's case: several terms, one with a fraction, not in descending order
\* of their units, have been parsed to the sum of their values.
C8_Witness ==
    /\ pc = "returned"
    /\ text = Dig(<<1>>) \o <<ByteDot>> \o Dig(<<5>>) \o <<115>> \o Dig(<<1, 2>>) \o <<109>>
    /\ EachTerm(text, checks).n = 2
    /\ ret = Ok(BAdd(BMulSmall(SECOND, 720), BMulSmall(MILLISECOND, 1500)))

\* C9: the unit token is the maximal run of bytes after the term's digits
\* that are neither digits nor '.'; a token of the table gives its
\* multiplier, and every other non-empty token makes parse return
\* UnknownUnit.
C9_UnitToken ==
    (pc = "accum" \/ (pc = "returned" /\ ret = Err("UnknownUnit"))) =>
        /\ u # <<>>
        /\ \A j \in 1..Len(u) : ~IsNumberByte(u[j])
        /\ s = <<>> \/ IsNumberByte(s[1])
        /\ Len(text) > Len(u) + Len(s)
        /\ SubSeq(text, Len(text) - Len(u) - Len(s) + 1, Len(text)) = u \o s
        /\ IsNumberByte(text[Len(text) - Len(u) - Len(s)])
        /\ IF UnitTable(u) # <<>>
           THEN pc = "accum" /\ unit = UnitTable(u)
           ELSE ret = Err("UnknownUnit")

\* C9's case: the token U+00B5 "s" has been scanned and given 10^3, with
\* the next term's digits left.
C9_Witness ==
    /\ pc = "accum"
    /\ u = <<194, 181, 115>>
    /\ unit = NatToBig(1000)
    /\ s # <<>>

\* C10 as stated: MissingUnit is returned only when a term's digits are
\* followed by the end of the input, never while input bytes remain.
C10_OnlyAtEnd == ret = Err("MissingUnit") => s = <<>>

\* C10: parse returns MissingUnit exactly when it has scanned a term's
\* digits and what follows is the end of the input or a '.'.
C10_MissingUnit ==
    [][(ret' = Err("MissingUnit") /\ ret # Err("MissingUnit"))
          <=> (pc = "unit" /\ (s = <<>> \/ s[1] = ByteDot))]_vars

\* C10's case: MissingUnit has been returned with input bytes remaining.
C10_Witness == pc = "returned" /\ ret = Err("MissingUnit") /\ s # <<>>

---------------------------------------------------------------------------
(* Reference strings the formatting properties compare to_string with       *)

\* the decimal digits (ASCII bytes) of a > 0, most significant first
RECURSIVE DecDigitsOf(_)
DecDigitsOf(a) ==
    IF a = <<>> THEN <<>>
    ELSE DecDigitsOf(BDivSmall(a, 10)) \o <<Byte0 + BModSmall(a, 10)>>

\* the decimal numeral of a
DecStr(a) == IF a = <<>> THEN <<Byte0>> ELSE DecDigitsOf(a)

\* ds with zeros in front up to width digits, and ds without its trailing zeros
PadLeft(ds, width) == [i \in 1..(width - Len(ds)) |-> Byte0] \o ds
RECURSIVE TrimZeros(_)
TrimZeros(ds) ==
    IF ds = <<>> THEN ds
    ELSE IF ds[Len(ds)] = Byte0 THEN TrimZeros(SubSeq(ds, 1, Len(ds) - 1))
    ELSE ds

\* the fraction fr / 10^width: nothing when it is zero, else '.' and its
\* width digits with the trailing zeros removed
FracStr(fr, width) ==
    IF fr = <<>> THEN <<>>
    ELSE <<ByteDot>> \o TrimZeros(PadLeft(DecDigitsOf(fr), width))

\* a component of value n with its unit letter, nothing when n is zero
Component(n, letter) == IF n = <<>> THEN <<>> ELSE DecStr(n) \o <<letter>>

\* the seconds component: S, the fraction F / 10^9, and "s"; nothing when
\* both are zero
SecondsPart(sec, fr) ==
    IF sec = <<>> /\ fr = <<>> THEN <<>>
    ELSE DecStr(sec) \o FracStr(fr, 9) \o <<115>>

\* H "h", M "m" and the seconds of x nanoseconds, zero components left out
HoursMinutesSeconds(x) ==
    Component(BDiv(x, TimesPow10(NatToBig(36), 11)), 104)
    \o Component(NatToBig(BModSmall(BDiv(x, TimesPow10(NatToBig(6), 10)), 60)), 109)
    \o SecondsPart(NatToBig(BModSmall(BDiv(x, TimesPow10(One, 9)), 60)),
                   BMod(x, TimesPow10(One, 9)))

\* C11: for every d with 10^9 <= d <= 2^63-1, to_string(d) returns the
\* concatenation of H "h" if H > 0, M "m" if M > 0 and, if S > 0 or F > 0,
\* S with (when F > 0) '.' and the 9 digits of F without trailing zeros,
\* then "s"; at least one component is there.
C11_HoursMinutesSeconds ==
    (op = "to_string" /\ pc # "idle"
        /\ BGe(d_in, TimesPow10(One, 9)) /\ BLe(d_in, I64Max))
    => /\ text = HoursMinutesSeconds(d_in)
       /\ text # <<>>

\* to_string(1h 0m 16.0000011s) returned "1h16.0000011s"
C11_Witness ==
    /\ op = "to_string" /\ pc = "formatted"
    /\ d_in = BAdd(HOUR, BAdd(BMulSmall(SECOND, 16), NatToBig(1100)))
    /\ text = <<49, 104, 49, 54, 46, 48, 48, 48, 48, 48, 49, 49, 115>>
    /\ text = HoursMinutesSeconds(d_in)

\* the text of 0 < x < 10^9 in the unit of un nanoseconds (10^width), whose
\* letter is the byte letter: x div un, the fraction (x mod un) / un, the
\* letter and "s"
InUnit(x, un, width, letter) ==
    DecStr(BDiv(x, un)) \o FracStr(BMod(x, un), width) \o <<letter, 115>>

\* ns below 10^3, us below 10^6, ms otherwise
SubSecondStr(x) ==
    IF BLt(x, TimesPow10(One, 3)) THEN InUnit(x, One, 0, 110)
    ELSE IF BLt(x, TimesPow10(One, 6)) THEN InUnit(x, TimesPow10(One, 3), 3, 117)
    ELSE InUnit(x, TimesPow10(One, 6), 6, 109)

\* the digits of text before its first byte that is no digit, as a number
LeadingValue(b) == DecValue(SubSeq(b, 1, DigitRun(b)))

\* C12: to_string(0) is "0s"; for 0 < d < 10^9 to_string(d) is in ns below
\* 10^3, in us below 10^6 and in ms otherwise, its integer part d div U is in
\* 1 .. 999, and d mod U follows a '.' without its trailing zeros, the '.'
\* left out when d mod U is zero.
C12_SubSecond ==
    (op = "to_string" /\ pc # "idle" /\ BLt(d_in, TimesPow10(One, 9)))
    => IF d_in = <<>> THEN text = <<Byte0, 115>>
       ELSE /\ text = SubSecondStr(d_in)
            /\ BGe(LeadingValue(text), One)
            /\ BLe(LeadingValue(text), NatToBig(999))

\* to_string(1001) returned "1.001us"
C12_Witness ==
    /\ op = "to_string" /\ pc = "formatted"
    /\ d_in = NatToBig(1001)
    /\ text = <<49, 46, 48, 48, 49, 117, 115>>

\* C13: for every 64-bit signed d, -2^63 included, to_string runs to
\* completion: no decrement of the write index goes below 0 and every write
\* is in bounds (the call does not panic), so that the string returned, the
\* buffer from w on, has between 2 and 32 bytes.
C13_BufferBounds ==
    op = "to_string" =>
        /\ ~(pc = "done" /\ ret = NoRet)
        /\ Len(text) >= 2
        /\ Len(text) <= BufLen

\* to_string(-1) returned its longest string, 25 bytes: w ended at 7
C13_Witness ==
    /\ op = "to_string" /\ pc = "formatted"
    /\ d_in = U64Max
    /\ Len(text) = 25

\* the length of the longest prefix of the leading digits of b whose decimal
\* value is at most 2^63 - 1
PrefixLen(b) ==
    CHOOSE k \in 0..DigitRun(b) :
        /\ BLe(DecValue(SubSeq(b, 1, k)), I64Max)
        /\ k = DigitRun(b) \/ BGt(DecValue(SubSeq(b, 1, k + 1)), I64Max)

\* what C14 has leading_fraction return for b, k being PrefixLen(b)
FractionOf(b, k) ==
    [kind  |-> "ok",
     f     |-> DecValue(SubSeq(b, 1, k)),
     scale |-> F64FromInt(TimesPow10(One, k)),
     rest  |-> SliceFrom(b, DigitRun(b))]

\* C14: leading_fraction always returns; the numerator is the decimal value
\* of the longest prefix of the leading run of digits whose value is at most
\* 2^63 - 1, the scale is 10 to the length of that prefix, and the slice
\* returned starts after the whole run.
C14_FractionPrefix ==
    (op = "leading_fraction" /\ pc = "done")
    => lf.res = FractionOf(lf.arg, PrefixLen(lf.arg))

====
